---- MODULE Spec2Model ----
(***************************************************************************)
(* Model of src/repl/init.rs: the REPL front-end (validator, prompt,       *)
(* construction).  Text is a sequence of one-character strings.            *)
(***************************************************************************)
EXTENDS Integers, Sequences, FiniteSets, TLC

VARIABLES
    table,       \* REPL_COMMANDS: sequence of [name, multiline] rows
    env,         \* outcomes of Config::history_file() and FileBackedHistory::with_file
    config,      \* the shared Config: role, conversation, extra completions
    lock,        \* holder of the mutex of SharedConfig: "free" or "prompt"
    repl,        \* what Repl::init returned: NotBuilt, Ok(Repl) or Err(error)
    line,        \* the input buffer handed to validate
    result,      \* what validate returned for line ("none" before the call)
    call,        \* the render function being executed, "none" between calls
    stage,       \* its position: "idle", "entered", "locked", "built"
    acquired,    \* lock acquisitions of the current (or last) render call
    out,         \* the text built by the current render call
    returned     \* the text the last completed render call returned

vars == <<table, env, config, lock, repl, line, result, call, stage, acquired, out,
          returned>>

\* ---------------------------------------------------------------- bounds
MaxLen == 5

\* ------------------------------------------------------------ characters
Quote == "\""
Open == "{"
Close == "}"
WhiteSpace == {" ", "\n", "\t"}
Chars == {"p", "x", Quote, Open, Close, " "}

RECURSIVE StringsOfLen(_)
StringsOfLen(n) ==
    IF n = 0 THEN {<<>>}
    ELSE {Append(s, c) : s \in StringsOfLen(n - 1), c \in Chars}

Lines == UNION {StringsOfLen(n) : n \in 0..MaxLen}

\* --------------------------------------------------------- command table
\* Names of the rows of REPL_COMMANDS; the multiline flag of each row is an
\* input of the model.
CommandNames == <<<<"p">>, <<"x", "p">>>>

Tables ==
    {[i \in 1..Len(CommandNames) |-> [name |-> CommandNames[i], multiline |-> f[i]]] :
        f \in [1..Len(CommandNames) -> BOOLEAN]}

\* REPL_COMMANDS.iter().filter(|(_, _, v)| *v).map(|(v, _, _)| *v).collect()
RECURSIVE FilterMultiline(_)
FilterMultiline(rows) ==
    IF rows = <<>> THEN <<>>
    ELSE IF Head(rows).multiline
         THEN <<Head(rows).name>> \o FilterMultiline(Tail(rows))
         ELSE FilterMultiline(Tail(rows))

\* ------------------------------------------------------------- str helpers
\* str::split(sep): the pieces between the occurrences of sep (always >= 1).
RECURSIVE SplitFrom(_, _, _)
SplitFrom(s, sep, cur) ==
    IF s = <<>> THEN <<cur>>
    ELSE IF Head(s) = sep
         THEN <<cur>> \o SplitFrom(Tail(s), sep, <<>>)
         ELSE SplitFrom(Tail(s), sep, Append(cur, Head(s)))

split(s, sep) == SplitFrom(s, sep, <<>>)

\* str::trim_start(): drop the leading white space.
RECURSIVE trim_start(_)
trim_start(s) ==
    IF s # <<>> /\ Head(s) \in WhiteSpace THEN trim_start(Tail(s)) ELSE s

\* str::starts_with(prefix)
starts_with(s, prefix) ==
    /\ Len(prefix) <= Len(s)
    /\ SubSeq(s, 1, Len(prefix)) = prefix

\* ------------------------------------------------------ incomplete_brackets
\* One iteration of the loop `for c in line.chars()` over the Vec balance.
ScanStepNegative(balance, c) ==
    IF c = Open THEN Append(balance, Close)
    ELSE IF c = Close
         THEN IF balance # <<>>
              THEN SubSeq(balance, 1, Len(balance) - 1)
              ELSE Append(balance, Open)
         ELSE balance

ScanStep(balance, c) ==
    IF c = Open THEN Append(balance, Close)
    ELSE IF c = Close
         THEN IF balance # <<>> /\ balance[Len(balance)] = c
              THEN SubSeq(balance, 1, Len(balance) - 1)
              ELSE balance
         ELSE balance

RECURSIVE Scan(_, _)
Scan(balance, s) ==
    IF s = <<>> THEN balance ELSE Scan(ScanStep(balance, Head(s)), Tail(s))

incomplete_brackets_untrimmed(l, cmds) ==
    IF ~ \E i \in 1..Len(cmds) : starts_with(l, cmds[i])
    THEN FALSE
    ELSE Scan(<<>>, l) # <<>>

incomplete_brackets_always(l, cmds) ==
    Scan(<<>>, trim_start(l)) # <<>>

incomplete_brackets(l, cmds) ==
    LET trimmed == trim_start(l) IN
    IF ~ \E i \in 1..Len(cmds) : starts_with(trimmed, cmds[i])
    THEN FALSE
    ELSE Scan(<<>>, trimmed) # <<>>

\* ------------------------------------------------- ReplValidator::validate
validate_and(l, cmds) ==
    IF Len(split(l, Quote)) % 2 = 0 /\ incomplete_brackets(l, cmds)
    THEN "Incomplete"
    ELSE "Complete"

validate(l, cmds) ==
    IF Len(split(l, Quote)) % 2 = 0 \/ incomplete_brackets(l, cmds)
    THEN "Incomplete"
    ELSE "Complete"

\* ------------------------------------------------------------ shared state
MaxTokens == 10

\* Option<T>
None == [some |-> FALSE]
Some(v) == [some |-> TRUE, value |-> v]

\* config.role (its name) and config.conversation (its remaining tokens)
Roles == {None, Some(<<"r">>)}
Conversations == {None, Some(0), Some(MaxTokens)}
\* Lists the configuration can return from repl_completions().
CompletionLists == {<<>>, <<<<"x">>>>, <<<<"p">>, <<".", "x">>>>}

Configs == [role : Roles, conversation : Conversations, completions : CompletionLists]

\* Outcomes of Config::history_file() and of FileBackedHistory::with_file.
HistoryFileResults ==
    {[ok |-> TRUE, path |-> "history"],
     [ok |-> FALSE, error |-> <<"history path not found">>]}
WithFileResults ==
    {[ok |-> TRUE],
     [ok |-> FALSE, error |-> <<"permission denied">>]}
Envs == [history_file : HistoryFileResults, with_file : WithFileResults]

\* ------------------------------------------------------------- Repl::init
HISTORY_CAPACITY == 1000
HISTORY_CONTEXT == "Failed to setup history file"
MIN_WORD_LEN == 2

RECURSIVE Names(_)
Names(rows) ==
    IF rows = <<>> THEN <<>> ELSE <<Head(rows).name>> \o Names(Tail(rows))

\* Repl::create_completer: the words handed to the completer, and its settings.
create_completer(tbl, cfg) ==
    [words |-> Names(tbl) \o cfg.completions,
     inclusions |-> {".", "-", "_"},
     min_word_len |-> MIN_WORD_LEN]

\* Repl::create_history
create_history_swallow(e) ==
    IF ~ e.history_file.ok THEN [ok |-> FALSE, error |-> e.history_file.error]
    ELSE IF ~ e.with_file.ok
         THEN [ok |-> TRUE, history |-> [capacity |-> HISTORY_CAPACITY, file |-> None]]
         ELSE [ok |-> TRUE,
               history |-> [capacity |-> HISTORY_CAPACITY, file |-> Some(e.history_file.path)]]

create_history(e) ==
    IF ~ e.history_file.ok THEN [ok |-> FALSE, error |-> e.history_file.error]
    ELSE IF ~ e.with_file.ok
         THEN [ok |-> FALSE, error |-> <<HISTORY_CONTEXT>> \o e.with_file.error]
         ELSE [ok |-> TRUE,
               history |-> [capacity |-> HISTORY_CAPACITY, file |-> Some(e.history_file.path)]]

\* The value Repl::init returns.
init(tbl, cfg, e) ==
    LET multiline_commands == FilterMultiline(tbl)
        completer == create_completer(tbl, cfg)
        history == create_history(e)
    IN  IF ~ history.ok
        THEN [state |-> "Err", error |-> history.error]
        ELSE [state |-> "Ok",
              editor |-> [completer |-> completer,
                          history |-> history.history,
                          validator |-> [multiline_commands |-> multiline_commands]],
              prompt |-> "config"]

NotBuilt == [state |-> "none"]
Built == repl.state = "Ok"

\* The words the completer of the built Repl completes from.
completer_words_live == Names(table) \o config.completions

completer_words == repl.editor.completer.words

\* The trigger set the validator of the built Repl matches against.
validator_commands == repl.editor.validator.multiline_commands

\* ------------------------------------------------------------- ReplPrompt
\* The full-width glyphs of the source, written in ASCII.
GLYPH_CHAT == <<"$">>
GLYPH_COMMAND == <<">">>

Digit(d) == <<"0", "1", "2", "3", "4", "5", "6", "7", "8", "9">>[d + 1]

\* usize::to_string
RECURSIVE to_string(_)
to_string(n) ==
    IF n < 10 THEN <<Digit(n)>> ELSE Append(to_string(n \div 10), Digit(n % 10))

render_prompt_left ==
    IF config.role.some THEN config.role.value ELSE <<>>

render_prompt_right ==
    IF config.conversation.some THEN to_string(config.conversation.value) ELSE <<>>

render_prompt_indicator_cached ==
    IF out \in {GLYPH_CHAT, GLYPH_COMMAND} THEN out
    ELSE IF config.conversation.some THEN GLYPH_CHAT ELSE GLYPH_COMMAND

render_prompt_indicator ==
    IF config.conversation.some THEN GLYPH_CHAT ELSE GLYPH_COMMAND

RenderFns == {"left", "right", "indicator"}

Render(f) ==
    CASE f = "left" -> render_prompt_left
      [] f = "right" -> render_prompt_right
      [] f = "indicator" -> render_prompt_indicator

\* The driving loop calls a render function.
RenderCall(f) ==
    /\ call = "none"
    /\ call' = f
    /\ stage' = "entered"
    /\ acquired' = 0
    /\ UNCHANGED <<table, env, config, lock, repl, line, result, out, returned>>

\* let config = self.0.lock();
RenderLock ==
    /\ stage = "entered"
    /\ lock = "free"
    /\ lock' = "prompt"
    /\ acquired' = acquired + 1
    /\ stage' = "locked"
    /\ UNCHANGED <<table, env, config, repl, line, result, call, out, returned>>

\* the body of the render function, under the guard
RenderBuild ==
    /\ stage = "locked"
    /\ out' = Render(call)
    /\ stage' = "built"
    /\ UNCHANGED <<table, env, config, lock, repl, line, result, call, acquired, returned>>

\* The guard goes out of scope when the function returns.
guard_drop_leaked == lock

guard_drop == "free"

RenderReturn ==
    /\ stage = "built"
    /\ lock' = guard_drop
    /\ call' = "none"
    /\ stage' = "idle"
    /\ returned' = out
    /\ UNCHANGED <<table, env, config, repl, line, result, acquired, out>>

\* ------------------------------------------------ the owner of the Config
SetRole(r) ==
    /\ lock = "free"
    /\ config.role # r
    /\ config' = [config EXCEPT !.role = r]
    /\ UNCHANGED <<table, env, lock, repl, line, result, call, stage, acquired, out, returned>>

SetConversation(c) ==
    /\ lock = "free"
    /\ config.conversation # c
    /\ config' = [config EXCEPT !.conversation = c]
    /\ UNCHANGED <<table, env, lock, repl, line, result, call, stage, acquired, out, returned>>

SetCompletions(cs) ==
    /\ lock = "free"
    /\ config.completions # cs
    /\ config' = [config EXCEPT !.completions = cs]
    /\ UNCHANGED <<table, env, lock, repl, line, result, call, stage, acquired, out, returned>>

\* ------------------------------------------------ specification: validator
\* The validator of a built Repl is applied to one input buffer.
InitValidate ==
    /\ table \in Tables
    /\ env = [history_file |-> [ok |-> TRUE, path |-> "history"],
              with_file |-> [ok |-> TRUE]]
    /\ config = [role |-> None, conversation |-> None, completions |-> <<>>]
    /\ lock = "free"
    /\ repl = init(table, config, env)
    /\ line \in Lines
    /\ result = "none"
    /\ call = "none"
    /\ stage = "idle"
    /\ acquired = 0
    /\ out = <<>>
    /\ returned = <<>>

Validate ==
    /\ Built
    /\ result = "none"
    /\ result' = validate(line, validator_commands)
    /\ UNCHANGED <<table, env, config, lock, repl, line, call, stage, acquired, out, returned>>

NextValidate == Validate

SpecValidate == InitValidate /\ [][NextValidate]_vars

\* --------------------------------------------------- specification: prompt
\* The prompt of a built Repl is rendered while the owner of the Config sets
\* and clears the role and the conversation.
InitPrompt ==
    /\ table \in Tables
    /\ env = [history_file |-> [ok |-> TRUE, path |-> "history"],
              with_file |-> [ok |-> TRUE]]
    /\ config = [role |-> None, conversation |-> None, completions |-> <<>>]
    /\ lock = "free"
    /\ repl = init(table, config, env)
    /\ line = <<>>
    /\ result = "none"
    /\ call = "none"
    /\ stage = "idle"
    /\ acquired = 0
    /\ out = <<>>
    /\ returned = <<>>

NextPrompt ==
    \/ \E f \in RenderFns : RenderCall(f)
    \/ RenderLock
    \/ RenderBuild
    \/ RenderReturn
    \/ \E r \in Roles : SetRole(r)
    \/ \E c \in Conversations : SetConversation(c)

SpecPrompt == InitPrompt /\ [][NextPrompt]_vars

\* -------------------------------------------------- specification: session
MaxSessionLen == 1

SessionLines == UNION {StringsOfLen(n) : n \in 0..MaxSessionLen}

\* Repl::init(config): create_completer takes the lock for one statement.
ReplInit ==
    /\ call = "none"
    /\ lock = "free"
    /\ repl' = init(table, config, env)
    /\ line' = <<>>
    /\ result' = "none"
    /\ UNCHANGED <<table, env, config, lock, call, stage, acquired, out, returned>>

\* The editor of the built Repl validates the buffer l.
SessionValidate(l) ==
    /\ Built
    /\ call = "none"
    /\ line' = l
    /\ result' = validate(l, validator_commands)
    /\ UNCHANGED <<table, env, config, lock, repl, call, stage, acquired, out, returned>>

InitSession ==
    /\ table \in Tables
    /\ env \in Envs
    /\ config \in {c \in Configs : c.role = None /\ c.conversation = None}
    /\ lock = "free"
    /\ repl = NotBuilt
    /\ line = <<>>
    /\ result = "none"
    /\ call = "none"
    /\ stage = "idle"
    /\ acquired = 0
    /\ out = <<>>
    /\ returned = <<>>

NextSession ==
    \/ ReplInit
    \/ \E l \in SessionLines : SessionValidate(l)
    \/ \E f \in RenderFns : Built /\ RenderCall(f)
    \/ RenderLock
    \/ RenderBuild
    \/ RenderReturn
    \/ \E c \in Conversations : SetConversation(c)
    \/ \E cs \in CompletionLists : SetCompletions(cs)

SpecSession == InitSession /\ [][NextSession]_vars

\* -------------------------------------------------- claim-side vocabulary
\* Number of double-quote characters of a text.
RECURSIVE CountChar(_, _)
CountChar(s, c) ==
    IF s = <<>> THEN 0
    ELSE (IF Head(s) = c THEN 1 ELSE 0) + CountChar(Tail(s), c)

OddQuotes(s) == CountChar(s, Quote) % 2 = 1

\* The text, after leading white space, starts with a word of the trigger set.
Triggering(s, tbl) ==
    \E i \in 1..Len(tbl) :
        /\ tbl[i].multiline
        /\ \E k \in 0..Len(s) :
              /\ \A j \in 1..k : s[j] \in WhiteSpace
              /\ (k < Len(s) => s[k + 1] \notin WhiteSpace)
              /\ k + Len(tbl[i].name) <= Len(s)
              /\ \A j \in 1..Len(tbl[i].name) : s[k + j] = tbl[i].name[j]

\* Depth of the stack of expected closing braces after the first k characters.
RECURSIVE Depth(_, _)
Depth(s, k) ==
    IF k = 0 THEN 0
    ELSE LET d == Depth(s, k - 1) IN
         IF s[k] = Open THEN d + 1
         ELSE IF s[k] = Close /\ d > 0 THEN d - 1
         ELSE d

Validated == result # "none"

\* C1: a line with an odd number of double quotes validates Incomplete,
\* whatever the trigger set, the prefix and the braces are.
C1_OddQuotesIncomplete ==
    (Validated /\ OddQuotes(line)) => result = "Incomplete"

C1_Witness ==
    /\ Validated
    /\ OddQuotes(line)
    /\ ~ Triggering(line, table)
    /\ CountChar(line, Open) = CountChar(line, Close)
    /\ result = "Incomplete"

\* C2: a line with an even number of double quotes that does not start, after
\* leading white space, with a trigger word validates Complete, however
\* unbalanced its braces are; the empty and the blank buffer included.
C2_NonTriggerComplete ==
    (Validated /\ ~ OddQuotes(line) /\ ~ Triggering(line, table))
        => result = "Complete"

C2_Witness ==
    /\ Validated
    /\ ~ OddQuotes(line)
    /\ ~ Triggering(line, table)
    /\ Depth(line, Len(line)) > 0
    /\ result = "Complete"

\* C3 as stated: a triggering line validates Incomplete exactly when the
\* stack of expected closing braces is non-empty at the end of the scan.
C3_Original ==
    (Validated /\ Triggering(line, table))
        => (result = "Incomplete" <=> Depth(line, Len(line)) > 0)

\* C3 amended: a triggering line with an even number of double quotes
\* validates Incomplete exactly when the stack of expected closing braces is
\* non-empty at the end of the scan.
C3_TriggerIffStack ==
    (Validated /\ Triggering(line, table) /\ ~ OddQuotes(line))
        => (result = "Incomplete" <=> Depth(line, Len(line)) > 0)

C3_Witness ==
    /\ Validated
    /\ table[1].multiline
    /\ \/ line = <<"p", Open, Open, "x", Close>> /\ result = "Incomplete"
       \/ line = <<"p", Open, Open, Close, Close>> /\ result = "Complete"

\* C9: in the scan of a triggering line a '}' met on an empty stack leaves the
\* stack empty and is no error: it neither makes the line Incomplete nor
\* cancels a later '{'.
C9_StrayCloseIgnored ==
    (Validated /\ Triggering(line, table) /\ ~ OddQuotes(line))
        => LET t == trim_start(line) IN
           /\ \A k \in 1..Len(t) :
                 (t[k] = Close /\ Scan(<<>>, SubSeq(t, 1, k - 1)) = <<>>)
                     => Scan(<<>>, SubSeq(t, 1, k)) = <<>>
           /\ (\A k \in 1..Len(t) : t[k] # Open) => result = "Complete"
           /\ (t # <<>> /\ t[Len(t)] = Open) => result = "Incomplete"
           /\ (line = <<"p", Close, Open>> => result = "Incomplete")
           /\ (line = <<"p", Open, Close, Close>> => result = "Complete")

C9_Witness ==
    /\ Validated
    /\ table[1].multiline
    /\ line = <<"p", Close, Open>>
    /\ result = "Incomplete"

\* C4: render_prompt_indicator hands back the chat glyph exactly when a
\* conversation is active while it runs and the command glyph otherwise,
\* whatever the owner of the Config did before and whatever was rendered
\* before.
C4_IndicatorFollowsConversation ==
    (call = "indicator" /\ stage = "built")
        => /\ (out = GLYPH_CHAT <=> config.conversation.some)
           /\ (out = GLYPH_COMMAND <=> ~ config.conversation.some)

C4_Witness ==
    /\ call = "indicator"
    /\ stage = "built"
    /\ returned = GLYPH_CHAT
    /\ out = GLYPH_COMMAND

C8_LockScopedToCall ==
    /\ acquired <= 1
    /\ (call = "none") => (lock = "free")
    /\ (lock = "prompt") <=> (stage \in {"locked", "built"})

C8_Witness ==
    /\ call = "none"
    /\ lock = "free"
    /\ acquired = 1
    /\ returned = to_string(MaxTokens)
    /\ config.role.some

====
